---- MODULE Spec2Model ----
(***************************************************************************)
(* State-machine model of the cart -> payment -> order pipeline of the     *)
(* store backend: controllers/cartController.js (cart and order handlers), *)
(* the payment controller (createPaymentIntent, processPayment,            *)
(* handleWebhook), models/Cart.js and models/Product.js.                   *)
(*                                                                         *)
(* Money.  Catalog prices, cart prices, cart totals and gateway amounts    *)
(* are integers counting cents.  The price fields of an Order count        *)
(* hundredths of a cent, so that the 7% tax of a cent amount is exact.     *)
(*                                                                         *)
(* Concurrency.  createOrder and processPayment are split at their awaits  *)
(* (one action per database or gateway round trip); a request in flight    *)
(* occupies a slot of reqs.  The other handlers are single actions.        *)
(***************************************************************************)
EXTENDS Integers, Sequences, FiniteSets

\* ------------------------------------------------------------- bounds
NumReq == 2       \* createOrder / processPayment requests served, one per slot
MaxStock == 1     \* initial stock of every product
MaxQty == 2       \* largest quantity a request names
MaxLines == 2     \* longest orderItems / items list of a request
MaxIntents == 1   \* payment intents created at the gateway
MaxIds == 4       \* cart and cart-line documents created during checkout
MaxCartIds == 3   \* cart and cart-line documents created by the cart handlers
MaxRestock == 2   \* largest stock an updateProduct request sets
MaxTime == 2      \* latest reading of the clock, the first being 1

Products == {"pA", "pB"}
UnknownProduct == "pX"
Users == {"u1", "u2"}
Slots == 1..NumReq

InitStock == [p \in Products |-> MaxStock]
InitPrice == [p \in Products |-> IF p = "pA" THEN 2500 ELSE 250]
PriceChoices == {250, 2500}
ShippingChoices == {0, 500, 1000}

VARIABLES
  stock,     \* Product.stock of every product
  price,     \* Product.price of every product, in cents
  carts,     \* the Cart collection, in insertion order
  orders,    \* the Order collection, in insertion order
  intents,   \* the gateway's payment intents; the index is the intent id
  reqs,      \* per slot: the handler in flight, its position and its locals
  nextId,    \* the next fresh id of a cart or a cart line
  nextOrder, \* the next fresh order id
  last,      \* the request and response of the last single-action handler
  log,       \* what handleWebhook wrote to the console
  now,       \* Date.now(), counted in readings that differ
  catalog    \* the products of the Product collection

vars == <<stock, price, carts, orders, intents, reqs, nextId, nextOrder, last, log, now, catalog>>

\* ------------------------------------------------------------ helpers
RECURSIVE SumSeq(_)
SumSeq(s) == IF s = <<>> THEN 0 ELSE Head(s) + SumSeq(Tail(s))

LineTotals(items) == [i \in 1..Len(items) |-> items[i].price * items[i].quantity]

RemoveAt(s, i) == [k \in 1..(Len(s) - 1) |-> IF k < i THEN s[k] ELSE s[k + 1]]

NoResp == [status |-> 0, error |-> "none"]
Resp(st, err) == [status |-> st, error |-> err]

\* ---------------------------------------------------------- models/Cart.js
\* PreSave without the hook: the total stays what the document held.
PreSaveKeepsTotal(cart) == cart

\* cartSchema.pre("save"): the total is recomputed from the lines on every save.
PreSave(cart) == [cart EXCEPT !.totalPrice = SumSeq(LineTotals(cart.items))]

\* CartValid without the min validator.
CartAlwaysValid(cart) == TRUE

\* cartItemSchema.quantity: min 1.  save() rejects the document otherwise.
CartValid(cart) == \A i \in 1..Len(cart.items) : cart.items[i].quantity >= 1

\* ------------------------------------------------------- models/Product.js
\* StockValid without the min validator.
StockAlwaysValid(n) == TRUE

\* productSchema.stock: min 0.  product.save() rejects a negative stock.
StockValid(n) == n >= 0

\* ------------------------------------------------------------ requests
\* What the last single-action handler answered.  status 0 with an error name
\* is an exception handed to next(error) without a status of its own.
Echo(op, st, err, data) ==
  [op |-> op, status |-> st, error |-> err, data |-> data]

NoLast == Echo("none", 0, "none", <<>>)

NoDecl == [itemsPrice |-> 0, taxPrice |-> 0, shippingPrice |-> 0, totalPrice |-> 0]

IdleReq ==
  [op |-> "none", pc |-> "idle", user |-> "u1", items |-> <<>>, decl |-> NoDecl,
   intent |-> 0, cart |-> 0, cartTotal |-> 0, doc |-> <<>>, idx |-> 0, read |-> 0,
   order |-> 0, saved |-> 0, resp |-> NoResp]

\* The response is sent: what stays of the handler is which order it created
\* (its local `order`), how many product.save() calls completed, and the answer.
Done(q, resp) ==
  [IdleReq EXCEPT !.op = q.op, !.pc = "done", !.order = q.order,
                  !.saved = q.saved, !.resp = resp]

Quiescent == \A r \in Slots : reqs[r].pc \in {"idle", "done"}

\* ------------------------------------------------ cart handlers (atomic)
CartIndex(cs, u) ==
  IF \E i \in 1..Len(cs) : cs[i].user = u
  THEN CHOOSE i \in 1..Len(cs) : cs[i].user = u /\ \A j \in 1..(i - 1) : cs[j].user # u
  ELSE 0

FindCart(u) == CartIndex(carts, u)

ProductLine(items, pid) ==
  IF \E i \in 1..Len(items) : items[i].product = pid
  THEN CHOOSE i \in 1..Len(items) :
         items[i].product = pid /\ \A j \in 1..(i - 1) : items[j].product # pid
  ELSE 0

LineById(items, itemId) ==
  IF \E i \in 1..Len(items) : items[i].id = itemId
  THEN CHOOSE i \in 1..Len(items) : items[i].id = itemId
  ELSE 0

NewCart(id, u) == [id |-> id, user |-> u, items |-> <<>>, totalPrice |-> 0]

PipelineUnchanged == UNCHANGED <<orders, nextOrder, intents, reqs, log>>

\* GET /api/cart
GetCart(u) ==
  /\ IF FindCart(u) = 0
     THEN /\ carts' = Append(carts, PreSave(NewCart(nextId, u)))
          /\ nextId' = nextId + 1
     ELSE UNCHANGED <<carts, nextId>>
  /\ last' = Echo("getCart", 200, "none", <<>>)
  /\ UNCHANGED <<now, catalog, stock, price>>
  /\ PipelineUnchanged

\* The line quantity an addToCart would produce (lines 61-74).
AddedQuantity(cs, u, pid, q) ==
  LET ci == CartIndex(cs, u)
      li == IF ci = 0 THEN 0 ELSE ProductLine(cs[ci].items, pid)
  IN  IF li = 0 THEN q ELSE cs[ci].items[li].quantity + q

\* ExceedsStock comparing with >= shifted by one: the test lets one unit too many through.
ExceedsStockOffByOne(newQty, available) == newQty > available + 1

\* The stock test of an existing line after `quantity += quantity` (line 64).
ExceedsStock(newQty, available) == newQty > available

\* POST /api/cart
AddToCart(u, pid, q) ==
  LET fail(st, err) == /\ last' = Echo("addToCart", st, err, <<>>)
                       /\ UNCHANGED <<carts, nextId>>
  IN
  /\ UNCHANGED <<now, catalog, stock, price>>
  /\ PipelineUnchanged
  /\ IF pid \notin catalog THEN fail(404, "NotFound")
     ELSE IF stock[pid] < q THEN fail(400, "InsufficientStock")
     ELSE
       LET ci == FindCart(u)
           created == ci = 0
           base == IF created THEN Append(carts, PreSave(NewCart(nextId, u))) ELSE carts
           bi == IF created THEN Len(base) ELSE ci
           id1 == IF created THEN nextId + 1 ELSE nextId
           cart == base[bi]
           li == ProductLine(cart.items, pid)
           doc == IF li > 0
                  THEN [cart EXCEPT !.items[li].quantity = @ + q]
                  ELSE [cart EXCEPT !.items = Append(@,
                          [id |-> id1, product |-> pid, quantity |-> q, price |-> price[pid]])]
           id2 == IF li > 0 THEN id1 ELSE id1 + 1
       IN
       IF li > 0 /\ ExceedsStock(doc.items[li].quantity, stock[pid])
       THEN /\ last' = Echo("addToCart", 400, "InsufficientStock", <<>>)
            /\ carts' = base
            /\ nextId' = id1
       ELSE IF ~CartValid(doc)
       THEN /\ last' = Echo("addToCart", 0, "ValidationError", <<>>)
            /\ carts' = base
            /\ nextId' = id1
       ELSE /\ last' = Echo("addToCart", 200, "none", <<>>)
            /\ carts' = [base EXCEPT ![bi] = PreSave(doc)]
            /\ nextId' = id2

\* The stock test of updateCartItem (line 120).
UpdateExceedsStock(q, available) == q > available

\* PUT /api/cart/:itemId
UpdateCartItem(u, itemId, q) ==
  LET ci == FindCart(u)
      li == IF ci = 0 THEN 0 ELSE LineById(carts[ci].items, itemId)
      fail(st, err) == /\ last' = Echo("updateCartItem", st, err, <<>>)
                       /\ UNCHANGED carts
  IN
  /\ UNCHANGED <<now, catalog, stock, price, nextId>>
  /\ PipelineUnchanged
  /\ IF ci = 0 THEN fail(404, "NotFound")
     ELSE IF li = 0 THEN fail(404, "NotFound")
     ELSE IF carts[ci].items[li].product \notin catalog THEN fail(404, "NotFound")
     ELSE IF UpdateExceedsStock(q, stock[carts[ci].items[li].product])
          THEN fail(400, "InsufficientStock")
     ELSE
       LET doc == IF q <= 0
                  THEN [carts[ci] EXCEPT !.items = RemoveAt(@, li)]
                  ELSE [carts[ci] EXCEPT !.items[li].quantity = q]
       IN  IF ~CartValid(doc) THEN fail(0, "ValidationError")
           ELSE /\ carts' = [carts EXCEPT ![ci] = PreSave(doc)]
                /\ last' = Echo("updateCartItem", 200, "none", <<>>)

\* DELETE /api/cart/:itemId
RemoveFromCart(u, itemId) ==
  LET ci == FindCart(u)
      li == IF ci = 0 THEN 0 ELSE LineById(carts[ci].items, itemId)
      fail(st, err) == /\ last' = Echo("removeFromCart", st, err, <<>>)
                       /\ UNCHANGED carts
  IN
  /\ UNCHANGED <<now, catalog, stock, price, nextId>>
  /\ PipelineUnchanged
  /\ IF ci = 0 THEN fail(404, "NotFound")
     ELSE IF li = 0 THEN fail(404, "NotFound")
     ELSE
       LET doc == [carts[ci] EXCEPT !.items = RemoveAt(@, li)]
       IN  IF ~CartValid(doc) THEN fail(0, "ValidationError")
           ELSE /\ carts' = [carts EXCEPT ![ci] = PreSave(doc)]
                /\ last' = Echo("removeFromCart", 200, "none", <<>>)

\* DELETE /api/cart
ClearCart(u) ==
  LET ci == FindCart(u)
  IN
  /\ UNCHANGED <<now, catalog, stock, price, nextId>>
  /\ PipelineUnchanged
  /\ IF ci = 0
     THEN /\ last' = Echo("clearCart", 404, "NotFound", <<>>)
          /\ UNCHANGED carts
     ELSE /\ carts' = [carts EXCEPT ![ci] = PreSave([@ EXCEPT !.items = <<>>])]
          /\ last' = Echo("clearCart", 200, "none", <<>>)

\* PUT /api/products/:id with body {price} or {stock}; runValidators: min 0.
UpdateProduct(p, field, v) ==
  /\ v >= 0
  /\ IF p \notin catalog
     THEN /\ last' = Echo("updateProduct", 404, "NotFound", <<>>)
          /\ UNCHANGED <<price, stock>>
     ELSE /\ IF field = "price"
             THEN price' = [price EXCEPT ![p] = v] /\ UNCHANGED stock
             ELSE stock' = [stock EXCEPT ![p] = v] /\ UNCHANGED price
          /\ last' = Echo("updateProduct", 200, "none", <<>>)
  /\ UNCHANGED <<now, catalog>>
  /\ UNCHANGED <<carts, nextId>>
  /\ PipelineUnchanged

\* DELETE /api/products/:id
DeleteProduct(p) ==
  /\ IF p \notin catalog
     THEN /\ last' = Echo("deleteProduct", 404, "NotFound", <<>>)
          /\ UNCHANGED catalog
     ELSE /\ catalog' = catalog \ {p}
          /\ last' = Echo("deleteProduct", 200, "none", <<>>)
  /\ UNCHANGED <<now, stock, price, carts, nextId>>
  /\ PipelineUnchanged

CartUnchanged == UNCHANGED <<carts, nextId, last>>

\* ------------------------------------------------ Order documents
\* The fields an Order gets when the request does not give them.
\* paidAt and deliveredAt are 0 while unset.
OrderDefaults ==
  [isPaid |-> FALSE, paidAt |-> 0, paymentResult |-> [id |-> 0, status |-> "none"],
   isDelivered |-> FALSE, deliveredAt |-> 0, status |-> "pending"]

\* Order.create(...) of createOrder: the request's items and declared prices.
DeclaredOrder(id, q) ==
  [id |-> id, user |-> q.user, orderItems |-> q.items,
   itemsPrice |-> q.decl.itemsPrice, taxPrice |-> q.decl.taxPrice,
   shippingPrice |-> q.decl.shippingPrice, totalPrice |-> q.decl.totalPrice,
   paymentMethod |-> "card",
   isPaid |-> OrderDefaults.isPaid, paidAt |-> OrderDefaults.paidAt,
   paymentResult |-> OrderDefaults.paymentResult,
   isDelivered |-> OrderDefaults.isDelivered, deliveredAt |-> OrderDefaults.deliveredAt,
   status |-> OrderDefaults.status]

\* processPayment, "Calculate prices": hundredths of a cent from a cart total
\* in cents; the tax is 7%, the shipping price the fixed 10.00.
PaidItemsPrice(cartTotal) == 100 * cartTotal
PaidTaxPrice(cartTotal) == 7 * cartTotal
PaidShippingPrice == 100000
PaidTotalPrice(cartTotal) ==
  PaidItemsPrice(cartTotal) + PaidTaxPrice(cartTotal) + PaidShippingPrice

\* Order.create(...) of processPayment.
PaidOrder(id, q) ==
  [id |-> id, user |-> q.user, orderItems |-> q.items,
   itemsPrice |-> PaidItemsPrice(q.cartTotal), taxPrice |-> PaidTaxPrice(q.cartTotal),
   shippingPrice |-> PaidShippingPrice, totalPrice |-> PaidTotalPrice(q.cartTotal),
   paymentMethod |-> "stripe",
   isPaid |-> TRUE, paidAt |-> now,
   paymentResult |-> [id |-> q.intent, status |-> "succeeded"],
   isDelivered |-> OrderDefaults.isDelivered, deliveredAt |-> OrderDefaults.deliveredAt,
   status |-> OrderDefaults.status]

\* A slot serves one request.
CanStart(r) == reqs[r].pc = "idle"

\* ------------------------------------- getCart and addToCart, by await
\* GET /api/cart arrives.
GetCartStart(r, u) ==
  /\ CanStart(r)
  /\ reqs' = [reqs EXCEPT ![r] =
       [IdleReq EXCEPT !.op = "getCart", !.pc = "find", !.user = u]]
  /\ UNCHANGED <<now, catalog, stock, price, orders, nextOrder, intents, log>>
  /\ CartUnchanged

\* POST /api/cart arrives: Product.findById and the first stock test.  The
\* handler keeps the product document it read: its stock and its price.
AddToCartStart(r, u, pid, q) ==
  /\ CanStart(r)
  /\ reqs' = [reqs EXCEPT ![r] =
       IF pid \notin catalog
       THEN Done([IdleReq EXCEPT !.op = "addToCart"], Resp(404, "NotFound"))
       ELSE IF stock[pid] < q
       THEN Done([IdleReq EXCEPT !.op = "addToCart"], Resp(400, "InsufficientStock"))
       ELSE [IdleReq EXCEPT !.op = "addToCart", !.pc = "find", !.user = u,
                            !.items = <<[product |-> pid, quantity |-> q,
                                         price |-> price[pid]]>>,
                            !.read = stock[pid]]]
  /\ UNCHANGED <<now, catalog, stock, price, orders, nextOrder, intents, log>>
  /\ CartUnchanged

\* Cart.findOne({ user: req.user.id }) of getCart (line 10) and addToCart
\* (line 50): the handler holds a copy of the document it found.
CartFind(r) ==
  LET q == reqs[r]
      ci == FindCart(q.user)
  IN
  /\ q.op \in {"getCart", "addToCart"} /\ q.pc = "find"
  /\ reqs' = [reqs EXCEPT ![r] =
       IF ci = 0 THEN [q EXCEPT !.pc = "create"]
       ELSE IF q.op = "getCart" THEN Done(q, Resp(200, "none"))
       ELSE [q EXCEPT !.pc = "save", !.cart = carts[ci].id, !.doc = carts[ci].items,
                      !.cartTotal = carts[ci].totalPrice]]
  /\ UNCHANGED <<now, catalog, stock, price, orders, nextOrder, intents, log>>
  /\ CartUnchanged

\* Cart.create({ user, items: [] }) of getCart (16-19) and addToCart (52-55).
\* The schema puts no unique index on user, so the insert always succeeds.
CartCreate(r) ==
  LET q == reqs[r]
  IN
  /\ q.op \in {"getCart", "addToCart"} /\ q.pc = "create"
  /\ carts' = Append(carts, PreSave(NewCart(nextId, q.user)))
  /\ nextId' = nextId + 1
  /\ reqs' = [reqs EXCEPT ![r] =
       IF q.op = "getCart" THEN Done(q, Resp(200, "none"))
       ELSE [q EXCEPT !.pc = "save", !.cart = nextId, !.doc = <<>>, !.cartTotal = 0]]
  /\ UNCHANGED <<now, catalog, stock, price, orders, nextOrder, intents, last, log>>

\* The rest of addToCart on the copy the handler holds: the line is found or
\* pushed, then cart.save().  save() validates the copy, recomputes its total
\* and writes only what changed on the copy: a pushed line is appended to the
\* stored array ($push, whatever the array holds by now); a changed quantity
\* is set by position and only when the stored array has the version that was
\* read (VersionError otherwise).  Only pushes change the array in the
\* behaviours where this action runs, so the version is the array's length.
AddToCartSave(r) ==
  LET q == reqs[r]
      item == q.items[1]
      li == ProductLine(q.doc, item.product)
      mem == IF li > 0
             THEN [q.doc EXCEPT ![li].quantity = @ + item.quantity]
             ELSE Append(q.doc, [id |-> nextId, product |-> item.product,
                                 quantity |-> item.quantity, price |-> item.price])
      total == SumSeq(LineTotals(mem))
      k == IF \E c \in 1..Len(carts) : carts[c].id = q.cart
           THEN CHOOSE c \in 1..Len(carts) : carts[c].id = q.cart
           ELSE 0
      fail(st, err) == /\ reqs' = [reqs EXCEPT ![r] = Done(q, Resp(st, err))]
                       /\ UNCHANGED <<carts, nextId>>
  IN
  /\ q.op = "addToCart" /\ q.pc = "save"
  /\ IF li > 0 /\ ExceedsStock(mem[li].quantity, q.read) THEN fail(400, "InsufficientStock")
     ELSE IF ~CartValid([items |-> mem]) THEN fail(0, "ValidationError")
     ELSE IF k = 0 THEN fail(0, "DocumentNotFoundError")
     ELSE IF li > 0 /\ Len(carts[k].items) # Len(q.doc) THEN fail(0, "VersionError")
     ELSE /\ carts' = [carts EXCEPT ![k] =
               [@ EXCEPT !.items = IF li > 0
                                   THEN [@ EXCEPT ![li].quantity = mem[li].quantity]
                                   ELSE Append(@, mem[Len(mem)]),
                         !.totalPrice = IF total # q.cartTotal THEN total ELSE @]]
          /\ nextId' = IF li > 0 THEN nextId ELSE nextId + 1
          /\ reqs' = [reqs EXCEPT ![r] = Done(q, Resp(200, "none"))]
  /\ UNCHANGED <<now, catalog, stock, price, orders, nextOrder, intents, last, log>>

\* --------------------------------------------------- createOrder, by await
\* POST /api/orders arrives; the empty-list test.
CreateOrderStart(r, u, items, decl) ==
  /\ CanStart(r)
  /\ reqs' = [reqs EXCEPT ![r] =
       IF items = <<>>
       THEN Done([IdleReq EXCEPT !.op = "createOrder"], Resp(400, "NoOrderItems"))
       ELSE [IdleReq EXCEPT !.op = "createOrder", !.pc = "check", !.user = u,
                            !.items = items, !.decl = decl, !.idx = 1]]
  /\ UNCHANGED <<now, catalog, stock, price, orders, nextOrder, intents, log>>
  /\ CartUnchanged

\* The stock test of the verification loop (line 237).
OutOfStock(available, q) == available < q

\* One round of "Verify all products exist and have sufficient stock".
CreateOrderCheck(r) ==
  LET q == reqs[r]
      item == q.items[q.idx]
  IN
  /\ q.op = "createOrder" /\ q.pc = "check"
  /\ reqs' = [reqs EXCEPT ![r] =
       IF item.product \notin catalog THEN Done(q, Resp(404, "NotFound"))
       ELSE IF OutOfStock(stock[item.product], item.quantity)
            THEN Done(q, Resp(400, "InsufficientStock"))
       ELSE IF q.idx = Len(q.items) THEN [q EXCEPT !.pc = "create"]
       ELSE [q EXCEPT !.idx = @ + 1]]
  /\ UNCHANGED <<now, catalog, stock, price, orders, nextOrder, intents, log>>
  /\ CartUnchanged

\* Order.create (line 243).
CreateOrderCreate(r) ==
  LET q == reqs[r]
  IN
  /\ q.op = "createOrder" /\ q.pc = "create"
  /\ orders' = Append(orders, DeclaredOrder(nextOrder, q))
  /\ nextOrder' = nextOrder + 1
  /\ reqs' = [reqs EXCEPT ![r] = [q EXCEPT !.pc = "read", !.order = nextOrder, !.idx = 1]]
  /\ UNCHANGED <<now, catalog, stock, price, carts, nextId, intents, last, log>>

\* "Update product stock": Product.findById of one round of the loop.  It
\* answers null for a product deleted since the items were read, and the
\* decrement of product.stock then throws.
ReadProduct(r, op) ==
  LET q == reqs[r]
  IN
  /\ q.op = op /\ q.pc = "read"
  /\ reqs' = [reqs EXCEPT ![r] =
       IF q.items[q.idx].product \notin catalog THEN Done(q, Resp(0, "TypeError"))
       ELSE [q EXCEPT !.pc = "save", !.read = stock[q.items[q.idx].product]]]
  /\ UNCHANGED <<now, catalog, stock, price, orders, nextOrder, intents, log>>
  /\ CartUnchanged

\* Decrement leaving the stock as read.
DecrementNothing(read, quantity) == read

\* product.stock -= item.quantity on the document read.
Decrement(read, quantity) == read - quantity

\* product.save() of one round: validation, then the write of the new stock.
\* `after` is the position once the loop is over.
SaveProduct(r, op, after) ==
  LET q == reqs[r]
      item == q.items[q.idx]
      new == Decrement(q.read, item.quantity)
  IN
  /\ q.op = op /\ q.pc = "save"
  /\ IF ~StockValid(new)
     THEN /\ reqs' = [reqs EXCEPT ![r] = Done(q, Resp(0, "ValidationError"))]
          /\ UNCHANGED stock
     ELSE IF item.product \notin catalog
     THEN /\ reqs' = [reqs EXCEPT ![r] = Done(q, Resp(0, "DocumentNotFoundError"))]
          /\ UNCHANGED stock
     ELSE /\ stock' = [stock EXCEPT ![item.product] = new]
          /\ reqs' = [reqs EXCEPT ![r] =
               IF q.idx < Len(q.items)
               THEN [q EXCEPT !.pc = "read", !.idx = @ + 1, !.saved = @ + 1]
               ELSE IF after = "done"
                    THEN Done([q EXCEPT !.saved = @ + 1], Resp(201, "none"))
                    ELSE [q EXCEPT !.pc = after, !.saved = @ + 1]]
  /\ UNCHANGED <<now, catalog, price, orders, nextOrder, intents, log>>
  /\ CartUnchanged

CreateOrderRead(r) == ReadProduct(r, "createOrder")
CreateOrderSave(r) == SaveProduct(r, "createOrder", "done")

\* ------------------------------------------------- payment controller
OrderUnchanged == UNCHANGED <<orders, nextOrder, reqs>>

\* The first item the verification loop of createPaymentIntent rejects, 0 for none.
FirstRejected(items) ==
  IF \E i \in 1..Len(items) :
       items[i].product \notin catalog \/ stock[items[i].product] < items[i].quantity
  THEN CHOOSE i \in 1..Len(items) :
         /\ items[i].product \notin catalog \/ stock[items[i].product] < items[i].quantity
         /\ \A j \in 1..(i - 1) :
              items[j].product \in catalog /\ stock[items[j].product] >= items[j].quantity
  ELSE 0

\* totalAmount: the sum of catalog price x quantity, in cents.
CatalogTotal(items) ==
  SumSeq([i \in 1..Len(items) |-> price[items[i].product] * items[i].quantity])

\* (totalAmount + totalAmount * 0.07 + shippingAmount) * 100, exactly, counted
\* in hundredths of a cent.
ChargeHundredths(total, shipping) == 107 * total + 100 * shipping

\* RoundedCents truncating instead of rounding.
TruncatedCents(n) == {n \div 100}

\* Math.round of that double.  Off a tie it is the nearest integer; on an exact
\* tie (.5 of a cent) the double arithmetic before it lands on either side, so
\* both neighbours are outcomes.
RoundedCents(n) ==
  IF n % 100 < 50 THEN {n \div 100}
  ELSE IF n % 100 > 50 THEN {n \div 100 + 1}
  ELSE {n \div 100, n \div 100 + 1}

\* QuotedStock reserving the quoted quantities of an accepted request.
ReservedStock(items) ==
  IF FirstRejected(items) > 0 THEN stock
  ELSE [p \in Products |->
          stock[p] - SumSeq([i \in 1..Len(items) |->
                               IF items[i].product = p THEN items[i].quantity ELSE 0])]

\* Product.stock after createPaymentIntent: the verification loop only reads
\* product.stock, no product is saved.
QuotedStock(items) == stock

\* POST /api/payment/create-payment-intent
CreatePaymentIntent(u, items, shipping) ==
  LET bad == FirstRejected(items)
  IN
  /\ Len(intents) < MaxIntents
  /\ stock' = QuotedStock(items)
  /\ UNCHANGED <<now, catalog, price, carts, nextId, log>>
  /\ OrderUnchanged
  /\ IF bad > 0
     THEN /\ last' = IF items[bad].product \notin catalog
                     THEN Echo("createPaymentIntent", 404, "NotFound", <<>>)
                     ELSE Echo("createPaymentIntent", 400, "InsufficientStock", <<>>)
          /\ UNCHANGED intents
     ELSE \E a \in RoundedCents(ChargeHundredths(CatalogTotal(items), shipping)) :
            /\ intents' = Append(intents,
                 [amount |-> a, userId |-> u, status |-> "requires_action"])
            /\ last' = Echo("createPaymentIntent", 200, "none",
                            [amount |-> a, id |-> Len(intents) + 1])

\* The payer completes or fails the payment at the gateway, out of band.
GatewaySettle(i, st) ==
  /\ i \in 1..Len(intents)
  /\ intents[i].status = "requires_action"
  /\ st \in {"succeeded", "failed"}
  /\ intents' = [intents EXCEPT ![i].status = st]
  /\ UNCHANGED <<now, catalog, stock, price, carts, nextId, last, log>>
  /\ OrderUnchanged

\* PaymentSucceeded letting through every intent that has not failed.
PaymentNotFailed(status) == status # "failed"

\* paymentIntent.status !== "succeeded", negated.
PaymentSucceeded(status) == status = "succeeded"

\* POST /api/payment/process-payment arrives: stripe.paymentIntents.retrieve
\* and the status test.
ProcessPaymentStart(r, u, i) ==
  LET q == [IdleReq EXCEPT !.op = "processPayment", !.user = u, !.intent = i]
  IN
  /\ CanStart(r)
  /\ reqs' = [reqs EXCEPT ![r] =
       IF i \notin 1..Len(intents) THEN Done(q, Resp(0, "GatewayError"))
       ELSE IF ~PaymentSucceeded(intents[i].status)
            THEN Done(q, Resp(400, "PaymentNotSuccessful"))
       ELSE [q EXCEPT !.pc = "cart"]]
  /\ UNCHANGED <<now, catalog, stock, price, orders, nextOrder, intents, log>>
  /\ CartUnchanged

\* "Get user's cart", then the order items and prices computed from it.
ProcessPaymentCart(r) ==
  LET q == reqs[r]
      ci == FindCart(q.user)
  IN
  /\ q.op = "processPayment" /\ q.pc = "cart"
  /\ reqs' = [reqs EXCEPT ![r] =
       IF ci = 0 \/ (ci > 0 /\ carts[ci].items = <<>>)
       THEN Done(q, Resp(400, "NoItemsInCart"))
       ELSE IF \E k \in 1..Len(carts[ci].items) : carts[ci].items[k].product \notin catalog
       THEN Done(q, Resp(0, "TypeError"))
       ELSE [q EXCEPT !.pc = "create", !.cart = carts[ci].id,
                      !.cartTotal = carts[ci].totalPrice,
                      !.items = [k \in 1..Len(carts[ci].items) |->
                                   [product |-> carts[ci].items[k].product,
                                    quantity |-> carts[ci].items[k].quantity,
                                    price |-> carts[ci].items[k].price]]]]
  /\ UNCHANGED <<now, catalog, stock, price, orders, nextOrder, intents, log>>
  /\ CartUnchanged

\* Order.create (line 103).
ProcessPaymentCreate(r) ==
  LET q == reqs[r]
  IN
  /\ q.op = "processPayment" /\ q.pc = "create"
  /\ orders' = Append(orders, PaidOrder(nextOrder, q))
  /\ nextOrder' = nextOrder + 1
  /\ reqs' = [reqs EXCEPT ![r] = [q EXCEPT !.pc = "read", !.order = nextOrder, !.idx = 1]]
  /\ UNCHANGED <<now, catalog, stock, price, carts, nextId, intents, last, log>>

ProcessPaymentRead(r) == ReadProduct(r, "processPayment")
ProcessPaymentSave(r) == SaveProduct(r, "processPayment", "delete")

\* Cart.findByIdAndDelete(cart._id), then the 201.
ProcessPaymentDelete(r) ==
  LET q == reqs[r]
  IN
  /\ q.op = "processPayment" /\ q.pc = "delete"
  /\ carts' = SelectSeq(carts, LAMBDA c : c.id # q.cart)
  /\ reqs' = [reqs EXCEPT ![r] = Done(q, Resp(201, "none"))]
  /\ UNCHANGED <<now, catalog, stock, price, orders, nextOrder, intents, nextId, last, log>>

WebhookTypes == {"payment_intent.succeeded", "payment_intent.payment_failed", "charge.refunded"}

\* SignatureVerifies accepting every request.
SignatureIgnored(sigOk) == TRUE

\* stripe.webhooks.constructEvent returns the event when the signature header
\* matches the raw body under the shared secret, and throws otherwise.
SignatureVerifies(sigOk) == sigOk

\* SwitchOrders settling the intent of a payment_intent.succeeded event.
SwitchSettles(type, i) ==
  IF type = "payment_intent.succeeded"
  THEN Append(orders, PaidOrder(nextOrder,
                [IdleReq EXCEPT !.user = intents[i].userId, !.intent = i]))
  ELSE orders

\* The Order collection after the switch on event.type: every case only
\* writes a line to the console.
SwitchOrders(type, i) == orders

\* Acknowledge refusing the event types the switch has no case for.
AcknowledgeKnown(type) ==
  IF type \in {"payment_intent.succeeded", "payment_intent.payment_failed"}
  THEN Echo("handleWebhook", 200, "none", [received |-> TRUE])
  ELSE Echo("handleWebhook", 400, "UnhandledEventType", <<>>)

\* res.status(200).json({ received: true }) after the switch.
Acknowledge(type) == Echo("handleWebhook", 200, "none", [received |-> TRUE])

\* POST /api/payment/webhook.  An event whose signature verifies comes from the
\* gateway and tells the truth about the intent it names; a request whose
\* signature does not verify can name anything.
HandleWebhook(sigOk, type, i) ==
  /\ sigOk => i \in 1..Len(intents)
  /\ sigOk /\ type = "payment_intent.succeeded" => intents[i].status = "succeeded"
  /\ sigOk /\ type = "payment_intent.payment_failed" => intents[i].status = "failed"
  /\ IF ~SignatureVerifies(sigOk)
     THEN /\ last' = Echo("handleWebhook", 400, "WebhookSignatureInvalid", <<>>)
          /\ UNCHANGED <<log, orders>>
     ELSE /\ log' = log \cup {<<type, IF type \in {"payment_intent.succeeded",
                                                   "payment_intent.payment_failed"}
                                       THEN i ELSE 0>>}
          /\ orders' = SwitchOrders(type, i)
          /\ last' = Acknowledge(type)
  /\ UNCHANGED <<now, catalog, stock, price, carts, nextId, intents, nextOrder, reqs>>

OrderIndex(oid) ==
  IF \E k \in 1..Len(orders) : orders[k].id = oid
  THEN CHOOSE k \in 1..Len(orders) : orders[k].id = oid
  ELSE 0

\* PUT /api/orders/:id/pay with the body's id and status.
UpdateOrderToPaid(u, oid, bid, bstatus) ==
  LET k == OrderIndex(oid)
  IN
  /\ IF k = 0
     THEN /\ last' = Echo("updateOrderToPaid", 404, "NotFound", <<>>)
          /\ UNCHANGED orders
     ELSE /\ orders' = [orders EXCEPT ![k] =
               [@ EXCEPT !.isPaid = TRUE, !.paidAt = now,
                         !.paymentResult = [id |-> bid, status |-> bstatus]]]
          /\ last' = Echo("updateOrderToPaid", 200, "none", <<>>)
  /\ UNCHANGED <<now, catalog, stock, price, carts, nextId, nextOrder, intents, reqs, log>>

\* The roles of an authenticated requester.
Roles == {"user", "admin"}

\* OwnerOrAdmin letting every requester through.
AnyRequester(owner, u, role) == TRUE

\* "Make sure user is order owner or admin": the test of line 322, negated.
OwnerOrAdmin(owner, u, role) == ~(owner # u /\ role # "admin")

\* GET /api/orders/:id by requester u with the given role.
GetOrderById(u, role, oid) ==
  LET k == OrderIndex(oid)
  IN
  /\ last' = IF k = 0 THEN Echo("getOrderById", 404, "NotFound", <<>>)
             ELSE IF ~OwnerOrAdmin(orders[k].user, u, role)
                  THEN Echo("getOrderById", 401, "NotAuthorized", <<>>)
             ELSE Echo("getOrderById", 200, "none", orders[k])
  /\ UNCHANGED <<now, catalog, stock, price, carts, nextId, orders, nextOrder, intents, reqs, log>>

\* PUT /api/orders/:id/deliver
UpdateOrderToDelivered(oid) ==
  LET k == OrderIndex(oid)
  IN
  /\ IF k = 0
     THEN /\ last' = Echo("updateOrderToDelivered", 404, "NotFound", <<>>)
          /\ UNCHANGED orders
     ELSE /\ orders' = [orders EXCEPT ![k] =
               [@ EXCEPT !.isDelivered = TRUE, !.deliveredAt = now, !.status = "delivered"]]
          /\ last' = Echo("updateOrderToDelivered", 200, "none", <<>>)
  /\ UNCHANGED <<now, catalog, stock, price, carts, nextId, nextOrder, intents, reqs, log>>

\* The statuses an updateOrderStatus request names.
StatusChoices == {"processing", "delivered"}

\* DeliveredStatus never recognising the status.
DeliveredStatusNever(status) == FALSE

\* status === "delivered"
DeliveredStatus(status) == status = "delivered"

\* PUT /api/orders/:id/status with the body's status.
UpdateOrderStatus(oid, status) ==
  LET k == OrderIndex(oid)
  IN
  /\ IF k = 0
     THEN /\ last' = Echo("updateOrderStatus", 404, "NotFound", <<>>)
          /\ UNCHANGED orders
     ELSE /\ orders' = [orders EXCEPT ![k] =
               IF DeliveredStatus(status)
               THEN [@ EXCEPT !.status = status, !.isDelivered = TRUE, !.deliveredAt = now]
               ELSE [@ EXCEPT !.status = status]]
          /\ last' = Echo("updateOrderStatus", 200, "none", <<>>)
  /\ UNCHANGED <<now, catalog, stock, price, carts, nextId, nextOrder, intents, reqs, log>>

\* StockAfterDelete giving the order's quantities back to the products.
StockRestored(order) ==
  [p \in Products |->
     stock[p] + SumSeq([i \in 1..Len(order.orderItems) |->
                          IF order.orderItems[i].product = p
                          THEN order.orderItems[i].quantity ELSE 0])]

\* Product.stock after deleteOrder removed the order: the handler touches no
\* product.
StockAfterDelete(order) == stock

\* DELETE /api/orders/:id
DeleteOrder(oid) ==
  LET k == OrderIndex(oid)
  IN
  /\ IF k = 0
     THEN /\ last' = Echo("deleteOrder", 404, "NotFound", <<>>)
          /\ UNCHANGED <<orders, stock>>
     ELSE /\ orders' = RemoveAt(orders, k)
          /\ stock' = StockAfterDelete(orders[k])
          /\ last' = Echo("deleteOrder", 200, "none", <<>>)
  /\ UNCHANGED <<now, catalog, price, carts, nextId, nextOrder, intents, reqs, log>>

\* Time passes: the next Date.now() reads a later value.
Tick ==
  /\ now < MaxTime
  /\ now' = now + 1
  /\ UNCHANGED catalog
  /\ UNCHANGED <<stock, price, carts, orders, intents, reqs, nextId, nextOrder, last, log>>

\* ------------------------------------------------------ specifications
Lines == [product : Products, quantity : 1..MaxQty]
         \cup {[product |-> UnknownProduct, quantity |-> 1]}

RECURSIVE ListsUpTo(_, _)
ListsUpTo(S, n) ==
  IF n = 0 THEN {<<>>}
  ELSE LET shorter == ListsUpTo(S, n - 1)
       IN  shorter \cup {Append(l, x) : l \in shorter, x \in S}

ItemLists == ListsUpTo(Lines, MaxLines)

\* Declared prices of a createOrder request, in hundredths of a cent: a
\* consistent quadruple and one whose total is not the sum.
DeclChoices ==
  {[itemsPrice |-> 100000, taxPrice |-> 7000, shippingPrice |-> 50000, totalPrice |-> 157000],
   [itemsPrice |-> 100000, taxPrice |-> 7000, shippingPrice |-> 50000, totalPrice |-> 100000]}

ForgedIntent == MaxIntents + 1

Init ==
  /\ stock = InitStock
  /\ price = InitPrice
  /\ carts = <<>>
  /\ orders = <<>>
  /\ intents = <<>>
  /\ reqs = [r \in Slots |-> IdleReq]
  /\ nextId = 1
  /\ nextOrder = 1
  /\ last = NoLast
  /\ log = {}
  /\ now = 1
  /\ catalog = Products

OneLine == {<<l>> : l \in Lines}

FairDecl == CHOOSE d \in DeclChoices : d.totalPrice = d.itemsPrice + d.taxPrice + d.shippingPrice

\* A payment intent of u1 that the gateway reports as succeeded.
PaidIntent == [amount |-> 2675, userId |-> "u1", status |-> "succeeded"]

InitCheckout ==
  /\ stock = InitStock
  /\ price = InitPrice
  /\ carts = <<>>
  /\ orders = <<>>
  /\ intents = <<PaidIntent>>
  /\ reqs = [r \in Slots |-> IdleReq]
  /\ nextId = 1
  /\ nextOrder = 1
  /\ last = NoLast
  /\ log = {}
  /\ now = 1
  /\ catalog = Products

\* Checkout under concurrency: the cart of u1 is filled while createOrder and
\* processPayment requests run interleaved at their awaits.
Next ==
  \/ \E p \in Products, q \in 1..MaxQty : AddToCart("u1", p, q) /\ nextId' <= MaxIds + 1
  \/ \E r \in Slots, i \in 1..ForgedIntent : ProcessPaymentStart(r, "u1", i)
  \/ \E r \in Slots : ProcessPaymentCart(r)
  \/ \E r \in Slots : ProcessPaymentCreate(r)
  \/ \E r \in Slots : ProcessPaymentRead(r)
  \/ \E r \in Slots : ProcessPaymentSave(r)
  \/ \E r \in Slots : ProcessPaymentDelete(r)
  \/ \E r \in Slots, items \in ItemLists : CreateOrderStart(r, "u1", items, FairDecl)
  \/ \E r \in Slots : CreateOrderCheck(r)
  \/ \E r \in Slots : CreateOrderCreate(r)
  \/ \E r \in Slots : CreateOrderRead(r)
  \/ \E r \in Slots : CreateOrderSave(r)

Spec == InitCheckout /\ [][Next]_vars

\* The payment flow, one processPayment request at a time: the cart of u1 is
\* filled, intents are created and settled at the gateway, webhooks arrive.
NextPay ==
  \/ \E p \in Products, q \in 1..MaxQty : AddToCart("u1", p, q) /\ nextId' <= MaxIds + 1
  \/ \E l \in OneLine, sh \in {0, 1000} : CreatePaymentIntent("u1", l, sh)
  \/ \E i \in 1..MaxIntents, st \in {"succeeded", "failed"} : GatewaySettle(i, st)
  \/ \E r \in Slots, i \in 1..ForgedIntent : Quiescent /\ ProcessPaymentStart(r, "u1", i)
  \/ \E r \in Slots : ProcessPaymentCart(r)
  \/ \E r \in Slots : ProcessPaymentCreate(r)
  \/ \E r \in Slots : ProcessPaymentRead(r)
  \/ \E r \in Slots : ProcessPaymentSave(r)
  \/ \E r \in Slots : ProcessPaymentDelete(r)
  \/ \E b \in BOOLEAN, t \in WebhookTypes, i \in 1..MaxIntents : HandleWebhook(b, t, i)

PaySpec == Init /\ [][NextPay]_vars

\* Orders, one request at a time: orders are created from declared prices or
\* from the cart of u1 after a payment, and marked paid by the client.
NextOrders ==
  \/ \E p \in Products, q \in 1..MaxQty : AddToCart("u1", p, q) /\ nextId' <= MaxIds + 1
  \/ \E r \in Slots, i \in 1..ForgedIntent : Quiescent /\ ProcessPaymentStart(r, "u1", i)
  \/ \E r \in Slots : ProcessPaymentCart(r)
  \/ \E r \in Slots : ProcessPaymentCreate(r)
  \/ \E r \in Slots : ProcessPaymentRead(r)
  \/ \E r \in Slots : ProcessPaymentSave(r)
  \/ \E r \in Slots : ProcessPaymentDelete(r)
  \/ \E r \in Slots, items \in ItemLists, d \in DeclChoices :
       Quiescent /\ CreateOrderStart(r, "u1", items, d)
  \/ \E r \in Slots : CreateOrderCheck(r)
  \/ \E r \in Slots : CreateOrderCreate(r)
  \/ \E r \in Slots : CreateOrderRead(r)
  \/ \E r \in Slots : CreateOrderSave(r)
  \/ \E oid \in 0..NumReq, bid \in 1..ForgedIntent :
       UpdateOrderToPaid("u1", oid, bid, "succeeded")

OrderSpec == InitCheckout /\ [][NextOrders]_vars

\* The order handlers, one request at a time, as time passes: orders of both
\* users are created, read by owners, other users and admins, marked paid,
\* marked delivered, moved between statuses and deleted.  A request takes the first
\* free slot.
NextFulfil ==
  \/ \E r \in Slots, u \in Users, p \in Products :
       /\ Quiescent /\ \A r2 \in 1..(r - 1) : ~CanStart(r2)
       /\ CreateOrderStart(r, u, <<[product |-> p, quantity |-> 1]>>, FairDecl)
  \/ \E r \in Slots : CreateOrderCheck(r)
  \/ \E r \in Slots : CreateOrderCreate(r)
  \/ \E r \in Slots : CreateOrderRead(r)
  \/ \E r \in Slots : CreateOrderSave(r)
  \/ \E u \in Users, role \in Roles, oid \in 0..NumReq : GetOrderById(u, role, oid)
  \/ \E oid \in 0..NumReq : UpdateOrderToPaid("u1", oid, 1, "succeeded")
  \/ \E oid \in 0..NumReq : UpdateOrderToDelivered(oid)
  \/ \E oid \in 0..NumReq, st \in StatusChoices : UpdateOrderStatus(oid, st)
  \/ \E oid \in 0..NumReq : DeleteOrder(oid)
  \/ Tick

FulfilSpec == Init /\ [][NextFulfil]_vars

\* Quantities of cart requests: negative, zero and positive.
CartQtys == (0 - 1)..MaxQty

\* The cart handlers, one request at a time, while the catalog changes the
\* price and the stock level of pA.
NextCart ==
  \/ \E u \in Users : GetCart(u) /\ nextId' <= MaxCartIds + 1
  \/ \E u \in Users, p \in Products \cup {UnknownProduct}, q \in CartQtys :
       AddToCart(u, p, q) /\ nextId' <= MaxCartIds + 1
  \/ \E u \in Users, id \in 1..(MaxCartIds + 1), q \in CartQtys : UpdateCartItem(u, id, q)
  \/ \E u \in Users, id \in 1..(MaxCartIds + 1) : RemoveFromCart(u, id)
  \/ \E u \in Users : ClearCart(u)
  \/ \E v \in PriceChoices : UpdateProduct("pA", "price", v)
  \/ \E v \in 0..MaxRestock : UpdateProduct("pA", "stock", v)

CartSpec == Init /\ [][NextCart]_vars

\* The prices the catalog takes while charges are quoted: 2.50 and 25.00, whose
\* 7% tax can end on half a cent, and 19.99, whose tax never does.
\* A user who holds an empty cart and a user who holds none yet.
InitRace ==
  /\ stock = InitStock
  /\ price = InitPrice
  /\ carts = <<PreSave(NewCart(1, "u1"))>>
  /\ orders = <<>>
  /\ intents = <<>>
  /\ reqs = [r \in Slots |-> IdleReq]
  /\ nextId = 2
  /\ nextOrder = 1
  /\ last = NoLast
  /\ log = {}
  /\ now = 1
  /\ catalog = Products

\* getCart and addToCart requests interleaved at their awaits while the
\* stock of pA is adjusted.
NextRace ==
  \/ \E r \in Slots, u \in Users : GetCartStart(r, u)
  \/ \E r \in Slots, u \in Users, p \in Products, q \in 1..MaxQty : AddToCartStart(r, u, p, q)
  \/ \E r \in Slots : CartFind(r)
  \/ \E r \in Slots : CartCreate(r)
  \/ \E r \in Slots : AddToCartSave(r)
  \/ \E v \in 0..MaxRestock : UpdateProduct("pA", "stock", v)

RaceSpec == InitRace /\ [][NextRace]_vars

\* Settlement by either user, one processPayment request at a time, of the
\* intent u1 created and paid.
NextSettle ==
  \/ \E u \in Users, p \in Products, q \in 1..MaxQty :
       AddToCart(u, p, q) /\ nextId' <= MaxIds + 1
  \/ \E r \in Slots, u \in Users, i \in 1..ForgedIntent :
       Quiescent /\ ProcessPaymentStart(r, u, i)
  \/ \E r \in Slots : ProcessPaymentCart(r)
  \/ \E r \in Slots : ProcessPaymentCreate(r)
  \/ \E r \in Slots : ProcessPaymentRead(r)
  \/ \E r \in Slots : ProcessPaymentSave(r)
  \/ \E r \in Slots : ProcessPaymentDelete(r)

SettleSpec == InitCheckout /\ [][NextSettle]_vars

\* The cart of u1 while an administrator deletes products from the catalog.
NextCatalog ==
  \/ \E p \in Products, q \in 1..MaxQty : AddToCart("u1", p, q) /\ nextId' <= MaxIds + 1
  \/ \E id \in 0..MaxIds, q \in CartQtys : UpdateCartItem("u1", id, q)
  \/ \E id \in 0..MaxIds : RemoveFromCart("u1", id)
  \/ \E p \in Products : DeleteProduct(p)

CatalogSpec == Init /\ [][NextCatalog]_vars

QuotePrices == PriceChoices \cup {1999}

\* Charges are quoted while the catalog changes prices and stock levels.
NextQuote ==
  \/ \E p \in Products, v \in QuotePrices : UpdateProduct(p, "price", v)
  \/ \E p \in Products, v \in 0..MaxRestock : UpdateProduct(p, "stock", v)
  \/ \E u \in Users, items \in ItemLists \ {<<>>}, sh \in ShippingChoices :
       CreatePaymentIntent(u, items, sh)

QuoteSpec == Init /\ [][NextQuote]_vars

\* ================================================================ claims

\* The quantity of product p over all persisted orders.
RECURSIVE QuantityOf(_, _)
QuantityOf(items, p) ==
  IF items = <<>> THEN 0
  ELSE (IF Head(items).product = p THEN Head(items).quantity ELSE 0)
       + QuantityOf(Tail(items), p)

RECURSIVE SoldIn(_, _)
SoldIn(os, p) ==
  IF os = <<>> THEN 0 ELSE QuantityOf(Head(os).orderItems, p) + SoldIn(Tail(os), p)

\* Every persisted order is the order of a request that answered 201.
AllOrdersAnswered ==
  \A k \in 1..Len(orders) :
    \E r \in Slots : /\ reqs[r].pc = "done"
                     /\ reqs[r].order = orders[k].id
                     /\ reqs[r].resp.status = 201

\* C1: in every reachable state, under every interleaving of createOrder and
\* processPayment requests, the persisted stock of every product is >= 0.
StockNeverNegative == \A p \in Products : stock[p] >= 0

\* C1 witness: a product is sold out and a later product.save() of a request
\* was rejected because it would have made the stock negative.
SaveRejectedAtZero ==
  /\ \E r \in Slots : reqs[r].pc = "done" /\ reqs[r].resp.error = "ValidationError"
  /\ \E p \in Products : stock[p] = 0

\* C2: with every request answered and every order created by a request that
\* answered 201, the quantity sold of each product is at most its initial stock
\* and equals the decrease of its stock.
NoOversell ==
  (Quiescent /\ AllOrdersAnswered) =>
    \A p \in Products :
      /\ SoldIn(orders, p) <= InitStock[p]
      /\ InitStock[p] - stock[p] = SoldIn(orders, p)

\* The orders created by processPayment that carry payment intent i.
SettledOrders(i) ==
  {k \in 1..Len(orders) :
     orders[k].paymentMethod = "stripe" /\ orders[k].paymentResult.id = i}

\* C3: once no request is in flight, a payment intent that processPayment has
\* settled is carried by exactly one order, whatever processPayment calls and
\* webhook deliveries named it.
IntentSettledOnce ==
  Quiescent =>
    \A i \in 1..Len(intents) :
      SettledOrders(i) # {} => Cardinality(SettledOrders(i)) = 1

\* C4: every order with isPaid = TRUE names in its payment result an intent
\* that the gateway reports as succeeded.
PaidOnlyAfterGatewaySuccess ==
  \A k \in 1..Len(orders) :
    orders[k].isPaid =>
      /\ orders[k].paymentResult.id \in 1..Len(intents)
      /\ intents[orders[k].paymentResult.id].status = "succeeded"

\* C5: the total price of an order created by processPayment, in cents, is the
\* amount the gateway was asked to charge for the intent the order carries.
OrderTotalIsChargedAmount ==
  \A k \in 1..Len(orders) :
    (orders[k].paymentMethod = "stripe" /\ orders[k].paymentResult.id \in 1..Len(intents)) =>
      orders[k].totalPrice = 100 * intents[orders[k].paymentResult.id].amount

\* The items price of a request at the catalog's prices, in cents.
RECURSIVE ItemsPrice(_)
ItemsPrice(items) ==
  IF items = <<>> THEN 0
  ELSE price[Head(items).product] * Head(items).quantity + ItemsPrice(Tail(items))

\* C6: a successful createPaymentIntent asks the gateway for the whole number
\* of cents nearest to items price + 7% tax + shipping charge, the items price
\* taken at the catalog's current prices, and answers with that same amount.
ChargeIsRoundedTotal ==
  [][\A u \in Users, items \in ItemLists \ {<<>>}, sh \in ShippingChoices :
       (CreatePaymentIntent(u, items, sh) /\ last'.status = 200) =>
         LET a == intents'[Len(intents')].amount
             exact == 100 * ItemsPrice(items) + 7 * ItemsPrice(items) + 100 * sh
         IN  /\ Len(intents') = Len(intents) + 1
             /\ 100 * a - exact <= 50
             /\ exact - 100 * a <= 50
             /\ last'.data.amount = a
             /\ last'.data.id = Len(intents')]_vars

\* C6 witness: the quote of 2 items at 25.00 with shipping 5.00 is 5850.
QuoteOf5850 ==
  /\ last.op = "createPaymentIntent" /\ last.status = 200
  /\ last.data.amount = 5850
  /\ intents[last.data.id].amount = 5850

\* C7: a createOrder request that answered with an error has persisted no
\* order and has saved no product's stock.
CreateOrderAllOrNothing ==
  \A r \in Slots :
    (reqs[r].op = "createOrder" /\ reqs[r].pc = "done" /\ reqs[r].resp.status # 201) =>
      (reqs[r].order = 0 /\ reqs[r].saved = 0)

\* C8: every persisted order has totalPrice = itemsPrice + taxPrice + shippingPrice.
OrderTotalIsSum ==
  \A k \in 1..Len(orders) :
    orders[k].totalPrice =
      orders[k].itemsPrice + orders[k].taxPrice + orders[k].shippingPrice

\* The sum of price x quantity over the lines of a cart.
RECURSIVE LinesValue(_)
LinesValue(items) ==
  IF items = <<>> THEN 0
  ELSE Head(items).price * Head(items).quantity + LinesValue(Tail(items))

\* C9: the totalPrice of every persisted cart is the sum of price x quantity
\* over its lines, 0 for an empty cart.
CartTotalIsSum ==
  \A c \in 1..Len(carts) : carts[c].totalPrice = LinesValue(carts[c].items)

\* C9 witness: a cart with two lines, one of them at a price the catalog no
\* longer has, after a successful updateCartItem.
TwoLinesUpdated ==
  /\ last.op = "updateCartItem" /\ last.status = 200
  /\ \E c \in 1..Len(carts) :
       /\ Len(carts[c].items) = 2
       /\ \E l \in 1..2 : carts[c].items[l].price # price[carts[c].items[l].product]

\* The product of the line with this id in the cart of u, "none" without one.
LineProduct(u, itemId) ==
  LET ci == FindCart(u)
      li == IF ci = 0 THEN 0 ELSE LineById(carts[ci].items, itemId)
  IN  IF li = 0 THEN "none" ELSE carts[ci].items[li].product

\* C10: an addToCart whose quantity, alone or added to the line already in the
\* cart, exceeds the product's stock, and an updateCartItem of an existing line
\* to a quantity above the stock, answer 400 (insufficient stock) and leave
\* every persisted cart as it was: a step of either handler that does not do
\* so is not one of those requests.
OverStockRejected ==
  [][\/ (last'.status = 400 /\ last'.error = "InsufficientStock" /\ carts' = carts)
     \/ /\ last'.op = "addToCart" =>
             \A u \in Users, p \in Products, q \in CartQtys :
               (q > stock[p] \/ AddedQuantity(carts, u, p, q) > stock[p])
                 => ~AddToCart(u, p, q)
        /\ last'.op = "updateCartItem" =>
             \A u \in Users, id \in 1..(MaxCartIds + 1), q \in CartQtys :
               (LineProduct(u, id) \in Products /\ q > stock[LineProduct(u, id)])
                 => ~UpdateCartItem(u, id, q)
    ]_vars

\* C10 witness: a line of quantity 1 in a cart, the product's stock at 2, and
\* an addToCart of 2 more was just answered 400.
AddBeyondStockRejected ==
  /\ last.op = "addToCart" /\ last.status = 400 /\ last.error = "InsufficientStock"
  /\ \E c \in 1..Len(carts) : \E l \in 1..Len(carts[c].items) :
       /\ carts[c].items[l].quantity = 1
       /\ stock[carts[c].items[l].product] = 2

\* C11: a webhook request whose signature does not verify is answered 400 and
\* changes no product, no cart and no order.
BadSignatureRejected ==
  [][\A t \in WebhookTypes, i \in 1..MaxIntents :
       HandleWebhook(FALSE, t, i) =>
         /\ last'.status = 400
         /\ UNCHANGED <<stock, price, carts, orders>>]_vars

\* C11 witness: with a cart and an order in the database, the last request was
\* a webhook answered 400.
UnsignedWebhookAnswered ==
  /\ last.op = "handleWebhook" /\ last.status = 400
  /\ carts # <<>> /\ orders # <<>>

\* The user who created intent i has a cart with at least one line.
PayerHasCart(i) ==
  \E c \in 1..Len(carts) : carts[c].user = intents[i].userId /\ carts[c].items # <<>>

\* C12: handling a verified payment_intent.succeeded event for an intent that
\* no order carries yet, while the paying user has a cart, leaves a paid order
\* carrying that intent.
WebhookSettlesUnsettled ==
  [][\A i \in 1..MaxIntents :
       (/\ i \in 1..Len(intents)
        /\ SettledOrders(i) = {}
        /\ PayerHasCart(i)
        /\ HandleWebhook(TRUE, "payment_intent.succeeded", i)) =>
         \E k \in 1..Len(orders') :
           orders'[k].isPaid /\ orders'[k].paymentResult.id = i]_vars

\* C13: handling a verified payment_intent.succeeded event for an intent that
\* an order already carries is answered 200 {received: true}, creates no order
\* and changes no stock.
SettledDeliveryChangesNothing ==
  [][\A i \in 1..MaxIntents :
       (/\ i \in 1..Len(intents)
        /\ SettledOrders(i) # {}
        /\ HandleWebhook(TRUE, "payment_intent.succeeded", i)) =>
         /\ last'.status = 200 /\ last'.data = [received |-> TRUE]
         /\ orders' = orders
         /\ stock' = stock]_vars

\* C13 witness: intent 1 is settled; the user has a cart again, which only an
\* addToCart after the settlement deleted the first cart can have created, and
\* the succeeded event was delivered and acknowledged after that addToCart.
DeliveredAfterSettlement ==
  /\ Quiescent
  /\ \A r \in Slots : reqs[r].resp.error = "none"
  /\ SettledOrders(1) # {}
  /\ carts # <<>>
  /\ <<"payment_intent.succeeded", 1>> \in log
  /\ last.op = "handleWebhook" /\ last.status = 200

\* C14: every webhook event whose signature verifies is answered
\* 200 {received: true}, whatever its type.
VerifiedEventAcknowledged ==
  [][\A t \in WebhookTypes, i \in 1..MaxIntents :
       HandleWebhook(TRUE, t, i) =>
         last'.status = 200 /\ last'.data = [received |-> TRUE]]_vars

\* C14 witness: an event of a type the switch does not know and a
\* payment_failed event were both handled, the last one acknowledged.
UnknownTypeAcknowledged ==
  /\ <<"charge.refunded", 0>> \in log
  /\ <<"payment_intent.payment_failed", 1>> \in log
  /\ last.op = "handleWebhook" /\ last.status = 200 /\ last.data = [received |-> TRUE]

\* C17: processPayment for an intent that the gateway does not report as
\* succeeded answers 400 payment-not-successful at once and creates no order,
\* changes no stock and leaves the carts as they are.
UnpaidIntentRejected ==
  [][\A r \in Slots, u \in Users, i \in 1..MaxIntents :
       (/\ i \in 1..Len(intents)
        /\ intents[i].status # "succeeded"
        /\ ProcessPaymentStart(r, u, i)) =>
         /\ reqs'[r].pc = "done"
         /\ reqs'[r].resp = Resp(400, "PaymentNotSuccessful")
         /\ reqs'[r].order = 0 /\ reqs'[r].saved = 0
         /\ UNCHANGED <<orders, stock, carts>>]_vars

\* C17 witness: a processPayment request was answered payment-not-successful
\* while the user had a cart with a line, and there is still no order.
UnpaidIntentAnswered ==
  /\ \E r \in Slots : /\ reqs[r].op = "processPayment" /\ reqs[r].pc = "done"
                      /\ reqs[r].resp = Resp(400, "PaymentNotSuccessful")
  /\ \E c \in 1..Len(carts) : carts[c].items # <<>>
  /\ orders = <<>>

\* The lines of a cart as order items: product, quantity and snapshot price.
CartLines(c) ==
  [k \in 1..Len(c.items) |->
     [product |-> c.items[k].product, quantity |-> c.items[k].quantity,
      price |-> c.items[k].price]]

\* C18: a processPayment request takes as its items the lines of the user's
\* cart as it finds it, creates one order with isPaid = TRUE holding those
\* items, decrements the stock of each line's product by the line's quantity,
\* and, when it answers 201, has removed the user's cart; with requests served
\* one at a time, the stock then accounts for every order.
SettlementConvertsCart ==
  [][\A r \in Slots :
       LET q == reqs[r]
       IN
       /\ (ProcessPaymentCart(r) /\ reqs'[r].pc = "create") =>
            reqs'[r].items = CartLines(carts[FindCart(q.user)])
       /\ ProcessPaymentCreate(r) =>
            /\ Len(orders') = Len(orders) + 1
            /\ orders'[Len(orders')].isPaid
            /\ orders'[Len(orders')].user = q.user
            /\ orders'[Len(orders')].orderItems = q.items
       /\ (ProcessPaymentSave(r) /\ reqs'[r].resp.error = "none") =>
            stock' = [stock EXCEPT ![q.items[q.idx].product] = @ - q.items[q.idx].quantity]
       /\ ProcessPaymentDelete(r) =>
            /\ reqs'[r].resp.status = 201
            /\ q.saved = Len(q.items)
            /\ Cardinality({k \in 1..Len(orders) : orders[k].id = q.order}) = 1
            /\ \A p \in Products : InitStock[p] - stock[p] = SoldIn(orders, p)
            /\ \A c \in 1..Len(carts') : carts'[c].user # q.user]_vars

\* C18 witness: a processPayment request answered 201 for a cart of two lines;
\* the order holds both, both products are sold out and the cart is gone.
TwoLineCartSettled ==
  /\ carts = <<>>
  /\ \A p \in Products : stock[p] = 0
  /\ \E r \in Slots :
       /\ reqs[r].op = "processPayment" /\ reqs[r].pc = "done" /\ reqs[r].resp.status = 201
       /\ \E k \in 1..Len(orders) :
            /\ orders[k].id = reqs[r].order /\ orders[k].isPaid
            /\ Len(orders[k].orderItems) = 2

\* C19: a processPayment request for an intent that an order already carries,
\* arriving when the user has no cart any more, changes nothing and answers
\* without an error.
ClearedCartIsBenign ==
  [][\A r \in Slots :
       (/\ reqs[r].op = "processPayment" /\ reqs[r].pc = "cart"
        /\ SettledOrders(reqs[r].intent) # {}
        /\ FindCart(reqs[r].user) = 0
        /\ ProcessPaymentCart(r)) =>
         /\ reqs'[r].resp.error = "none"
         /\ UNCHANGED <<orders, stock, carts>>]_vars

\* C15: getOrderById answers 404 without data for an unknown order id, 200 with
\* the order for its owner or an admin, and 401 without data for anyone else.
OrderReadByOwnerOrAdmin ==
  [][\A u \in Users, role \in Roles, oid \in 0..NumReq :
       (last'.op = "getOrderById" /\ GetOrderById(u, role, oid)) =>
         LET found == {k \in 1..Len(orders) : orders[k].id = oid}
         IN  IF found = {}
             THEN last'.status = 404 /\ last'.data = <<>>
             ELSE \A k \in found :
                    IF orders[k].user = u \/ role = "admin"
                    THEN last'.status = 200 /\ last'.data = orders[k]
                    ELSE last'.status = 401 /\ last'.data = <<>>]_vars

\* C15 witness: there are orders of both users and the last request, a
\* getOrderById, was answered 401.
OrderReadRefused ==
  /\ last.op = "getOrderById" /\ last.status = 401
  /\ \E k \in 1..Len(orders) : orders[k].user = "u1"
  /\ \E k \in 1..Len(orders) : orders[k].user = "u2"

\* C16: updateOrderToPaid applied to an order that is already paid, with the
\* transaction id and status it already records, changes nothing of the order.
MarkPaidIdempotent ==
  [][\A u \in Users, oid \in 1..NumReq :
       LET k == OrderIndex(oid)
       IN  (/\ k # 0
            /\ orders[k].isPaid
            /\ UpdateOrderToPaid(u, oid, orders[k].paymentResult.id,
                                 orders[k].paymentResult.status)) =>
             orders' = orders]_vars

\* C20: every order whose status is "delivered" has isDelivered = TRUE and
\* deliveredAt set.
DeliveredHasFlags ==
  \A k \in 1..Len(orders) :
    orders[k].status = "delivered" =>
      orders[k].isDelivered /\ orders[k].deliveredAt # 0

\* C20 witness: one order was delivered by updateOrderToDelivered or by
\* updateOrderStatus and moved on to another status, and the last request, an
\* updateOrderStatus, left another order delivered.
DeliveredByStatus ==
  /\ last.op = "updateOrderStatus" /\ last.status = 200
  /\ \E k \in 1..Len(orders) : orders[k].status = "delivered"
  /\ \E k \in 1..Len(orders) : orders[k].status = "processing" /\ orders[k].isDelivered

\* C21: deleteOrder of a known order removes exactly that order and leaves
\* every product's stock as it is; for an unknown id it answers 404 and changes
\* neither orders nor stock.
DeleteKeepsStock ==
  [][\A oid \in 0..NumReq :
       (last'.op = "deleteOrder" /\ DeleteOrder(oid)) =>
         /\ stock' = stock
         /\ IF \E k \in 1..Len(orders) : orders[k].id = oid
            THEN /\ last'.status = 200
                 /\ \A k \in 1..Len(orders') : orders'[k].id # oid
                 /\ Len(orders') = Len(orders) - 1
                 /\ \A k \in 1..Len(orders) :
                      orders[k].id # oid => \E j \in 1..Len(orders') : orders'[j] = orders[k]
            ELSE last'.status = 404 /\ orders' = orders]_vars

\* C21 witness: the order that took the last unit of a product was deleted and
\* the product is still sold out.
DeletedOrderStockStays ==
  /\ last.op = "deleteOrder" /\ last.status = 200
  /\ orders = <<>> /\ nextOrder = 2
  /\ \E r \in Slots : reqs[r].pc = "done" /\ reqs[r].resp.status = 201
  /\ \E p \in Products : stock[p] = 0

\* C22: updateCartItem with a quantity of zero or less on a line of the user's
\* cart answers 200, removes that line and leaves every other line as it was.
NonPositiveQuantityRemoves ==
  [][\A id \in 1..MaxIds, q \in CartQtys :
       (/\ last'.op = "updateCartItem"
        /\ q <= 0
        /\ FindCart("u1") > 0
        /\ LineById(carts[FindCart("u1")].items, id) > 0
        /\ UpdateCartItem("u1", id, q)) =>
         /\ last'.status = 200
         /\ carts'[FindCart("u1")].items =
              RemoveAt(carts[FindCart("u1")].items,
                       LineById(carts[FindCart("u1")].items, id))]_vars

\* C24: after a successful addToCart the unit price stored on the line of the
\* added product is the product's catalog price at that moment, whether the
\* line is new or was already in the cart.
LinePriceIsCatalogPrice ==
  [][\A u \in Users, p \in Products, q \in 1..MaxQty :
       (last'.op = "addToCart" /\ last'.status = 200 /\ AddToCart(u, p, q)) =>
         \E c \in 1..Len(carts') :
           /\ carts'[c].user = u
           /\ \E l \in 1..Len(carts'[c].items) :
                /\ carts'[c].items[l].product = p
                /\ carts'[c].items[l].price = price[p]]_vars

\* C28: every line of every persisted cart has a quantity of at least 1.
CartQuantitiesPositive ==
  \A c \in 1..Len(carts) : \A l \in 1..Len(carts[c].items) : carts[c].items[l].quantity >= 1

\* C28 witness: an addToCart that would have left a line without a positive
\* quantity was rejected by the validator, in a cart that keeps a line and
\* next to a cart that was created empty.
NonPositiveLineRejected ==
  /\ last.op = "addToCart" /\ last.error = "ValidationError"
  /\ \E c \in 1..Len(carts) : Len(carts[c].items) > 0
  /\ \E c \in 1..Len(carts) : carts[c].items = <<>>

\* C26: createPaymentIntent, accepted or rejected, changes no product's stock,
\* no cart and no order.
QuoteIsReadOnly ==
  [][\A items \in OneLine, sh \in ShippingChoices :
       (last'.op = "createPaymentIntent" /\ CreatePaymentIntent("u1", items, sh)) =>
         /\ stock' = stock
         /\ carts' = carts
         /\ orders' = orders]_vars

\* C26 witness: an intent was created for a user who holds a cart, and every
\* product still has its whole stock.
QuotedWithCart ==
  /\ last.op = "createPaymentIntent" /\ last.status = 200
  /\ Len(intents) = 1
  /\ \E c \in 1..Len(carts) : carts[c].user = "u1" /\ carts[c].items # <<>>
  /\ stock = InitStock

\* C27: a processPayment request that answered with an error has persisted no
\* order and has saved no product's stock.
ProcessPaymentAllOrNothing ==
  \A r \in Slots :
    (reqs[r].op = "processPayment" /\ reqs[r].pc = "done" /\ reqs[r].resp.status # 201) =>
      (reqs[r].order = 0 /\ reqs[r].saved = 0)

\* C29: every order paid through the gateway belongs to the user who created
\* the intent it was settled with (the intent's metadata.userId).
IntentSettlesForItsUser ==
  \A k \in 1..Len(orders) :
    (orders[k].isPaid /\ orders[k].paymentMethod = "stripe") =>
      /\ orders[k].paymentResult.id \in 1..Len(intents)
      /\ orders[k].user = intents[orders[k].paymentResult.id].userId

\* C23: no cart holds two lines for the same product.
NoDuplicateLines ==
  \A c \in 1..Len(carts) :
    \A i, j \in 1..Len(carts[c].items) :
      carts[c].items[i].product = carts[c].items[j].product => i = j

\* C25: at most one cart exists per user.
OneCartPerUser ==
  \A c, d \in 1..Len(carts) : carts[c].user = carts[d].user => c = d

====
